---- MODULE Spec2Model ----
(***************************************************************************)
(* Burst-fire tee time booking: the dispatch of one unit per               *)
(* (offset, target) pair, the first request of each unit, the smart retry  *)
(* loop and the burst summary of Automated_Tee_Time_Booking.py.            *)
(*                                                                         *)
(* Time is an integer number of milliseconds.  cutoff_seconds and the      *)
(* request timeout are held in milliseconds as well, so that the model     *)
(* needs no fractions; the configurations explored are scaled down to a    *)
(* few milliseconds.                                                       *)
(***************************************************************************)
EXTENDS Integers, Sequences, FiniteSets, TLC

VARIABLES
    config,        \* BurstConfig of the booker (self.config)
    target_times,  \* self.target_times
    booking_time,  \* result of _calculate_booking_time (base_time of every unit)
    now,           \* time.time(), in ms
    main_pc,       \* position of execute_burst_strategy
    tasks,         \* one coroutine _schedule_booking_attempt per job
    attempts,      \* list returned by execute_burst_strategy
    exceptions,    \* results of gather that are exceptions
    summary,       \* what log_burst_summary logged
    summaries,     \* number of calls of log_burst_summary
    session,       \* what initialize_session left: cookies and booking_url, or not
    run_outcome,   \* how run_burst_booking ended
    run_error,     \* str(e) of the exception run_burst_booking re-raised
    successful_attempts   \* list returned by run_burst_booking

\* what run_burst_booking holds besides the booker
run_vars == <<session, run_outcome, run_error, successful_attempts>>

vars == <<config, target_times, booking_time, now, main_pc, tasks, attempts,
          exceptions, summary, summaries, run_vars>>

----------------------------------------------------------------------------
(* Bounds of the exploration *)

\* a sleeping coroutine is resumed at most this many ms after its deadline
MaxJitter == 1
\* a request is answered (or fails) at most this many ms after it is issued
MaxRequestTime == 2
\* largest max_retry_attempts among the configurations explored
MaxRetryCfg == 2

----------------------------------------------------------------------------
(* Text: a str is a sequence of one-character strings *)

NoneStr == <<"None">>      \* Python None where a str is expected
NoneInt == -1              \* Python None where an int is expected

UpperCase == <<"A","B","C","D","E","F","G","H","I","J","K","L","M",
               "N","O","P","Q","R","S","T","U","V","W","X","Y","Z">>
LowerCase == <<"a","b","c","d","e","f","g","h","i","j","k","l","m",
               "n","o","p","q","r","s","t","u","v","w","x","y","z">>

\* the characters of the texts below
Chars ==
    { UpperCase[i] : i \in 1..26 } \cup { LowerCase[i] : i \in 1..26 }
        \cup {" ", "(", ")", "0", "1", "2", "3", "4", "5", "6", "7", "8", "9"}

\* str.lower() on one character
LowerMap ==
    [ c \in Chars |->
        IF \E i \in 1..26 : UpperCase[i] = c
        THEN LowerCase[CHOOSE i \in 1..26 : UpperCase[i] = c]
        ELSE c ]

LowerChar(c) == LowerMap[c]

\* str.lower()
Lower(s) == [i \in 1..Len(s) |-> LowerChar(s[i])]

\* sub in s
Contains(sub, s) ==
    \E k \in 0..(Len(s) - Len(sub)) :
        \A i \in 1..Len(sub) : s[k + i] = sub[i]

\* (error_msg or "")
OrEmpty(s) == IF s = NoneStr THEN << >> ELSE s

\* "booking not open"
Marker == <<"b","o","o","k","i","n","g"," ","n","o","t"," ","o","p","e","n">>

\* str(n) for a non-negative int
RECURSIVE Str(_)
Str(n) ==
    LET d == <<"0","1","2","3","4","5","6","7","8","9">>
    IN  IF n < 10 THEN <<d[n + 1]>> ELSE Str(n \div 10) \o <<d[(n % 10) + 1]>>

\* f"Max retries ({retry_count}) reached or cutoff time exceeded"
MaxRetriesMsg(retry_count) ==
    <<"M","a","x"," ","r","e","t","r","i","e","s"," ","(">>
    \o Str(retry_count) \o
    <<")"," ","r","e","a","c","h","e","d"," ","o","r"," ","c","u","t","o","f","f",
      " ","t","i","m","e"," ","e","x","c","e","e","d","e","d">>

\* bodies a server answers with
BodyNotOpenYet == <<"B","o","o","k","i","n","g"," ","n","o","t"," ","o","p","e","n",
                    " ","y","e","t">>
BodyNotOpenLower == <<"b","o","o","k","i","n","g"," ","n","o","t"," ","o","p","e","n",
                      " ","y","e","t">>
BodyNoAvailability == <<"n","o"," ","a","v","a","i","l","a","b","i","l","i","t","y">>
BodyInvalid == <<"i","n","v","a","l","i","d">>
BodyOK == <<"O","K">>
\* str(e) of an aiohttp.ClientError and of an exception that is not one
TextConnReset == <<"r","e","s","e","t">>
TextTimeout == <<"t","i","m","e","o","u","t">>

----------------------------------------------------------------------------
(* Configurations explored *)

\* (burst_offsets, target_times) of the bursts explored; offsets in ms
BurstShapes ==
    { << <<-3>>, <<"7:33">> >>,
      << <<-3>>, <<"7:33", "7:42">> >>,
      << <<1, -3>>, <<"7:33">> >>,
      << <<-3, -3>>, <<"7:33">> >> }

\* cutoff_seconds of the configurations explored, in ms
CutoffChoices == {1, 4}

\* booking_window_time of the configurations explored: "00:00:02", and "23:00",
\* which has no seconds
WindowChoices ==
    { <<"0","0",":","0","0",":","0","2">>, <<"2","3",":","0","0">> }

\* today's 00:00:00 on the clock of the model, which reads 0 when
\* execute_burst_strategy is called, in ms
Midnight == -1998

\* BurstConfig
BurstConfig(burst_offsets, max_retry_attempts, booking_window_time, cutoff_seconds) ==
    [ burst_offsets |-> burst_offsets,
      retry_interval_ms |-> 1,
      max_retry_attempts |-> max_retry_attempts,
      max_concurrent_requests |-> 1,
      booking_window_time |-> booking_window_time,
      cutoff_seconds |-> cutoff_seconds ]

\* max_retry_attempts of the configurations explored: no retry, one, and the
\* largest
RetryChoices == {0, 1, MaxRetryCfg}

\* BurstFireTeeTimeBooker(config, credentials, target_times)
Bookers ==
    { [ config |-> BurstConfig(sh[1], m, w, c), target_times |-> sh[2] ] :
      sh \in BurstShapes, m \in RetryChoices, w \in WindowChoices,
      c \in CutoffChoices }

\* the configurations of the fair specification: every burst whose units all
\* fire at dispatch, and the bursts with a unit that waits for its instant,
\* these with the short cutoff
FairBookers ==
    { b \in Bookers :
        /\ b.config.burst_offsets # <<-3, -3>>
        /\ b.config.burst_offsets = <<1, -3>> => b.config.cutoff_seconds = 1 }

\* the answer to one request: an HTTP response, an aiohttp.ClientError raised
\* by session.post, or any other exception raised by it (asyncio.TimeoutError)
Outcomes ==
    { [kind |-> "response", status |-> 200, text |-> BodyOK],
      [kind |-> "response", status |-> 400, text |-> BodyNotOpenYet],
      [kind |-> "response", status |-> 400, text |-> BodyInvalid],
      [kind |-> "response", status |-> 409, text |-> BodyNoAvailability],
      [kind |-> "ClientError", status |-> 0, text |-> TextConnReset],
      [kind |-> "Exception", status |-> 0, text |-> TextTimeout] }

\* no request has been answered yet
NoOutcome == [kind |-> "none", status |-> 0, text |-> NoneStr]

----------------------------------------------------------------------------
(* Scheduling *)

\* Jobs with the offsets deduplicated before the loops
RECURSIVE Dedup(_)
Dedup(s) ==
    IF s = << >> THEN << >>
    ELSE LET r == Dedup(SubSeq(s, 1, Len(s) - 1))
         IN  IF \E i \in 1..Len(r) : r[i] = s[Len(s)] THEN r ELSE Append(r, s[Len(s)])

JobsDeduplicated(cfg, tt) ==
    LET offs == Dedup(cfg.burst_offsets)
    IN  [ i \in 1..(Len(offs) * Len(tt)) |->
            [ offset_ms |-> offs[((i - 1) \div Len(tt)) + 1],
              tee_time |-> tt[((i - 1) % Len(tt)) + 1] ] ]

\* the (offset_ms, tee_time) pairs in the order of the nested loops
Jobs(cfg, tt) ==
    [ i \in 1..(Len(cfg.burst_offsets) * Len(tt)) |->
        [ offset_ms |-> cfg.burst_offsets[((i - 1) \div Len(tt)) + 1],
          tee_time |-> tt[((i - 1) % Len(tt)) + 1] ] ]

\* the offset taken with the wrong sign
ExecutionTimeMinus(base_time, offset_ms) == base_time - offset_ms

\* execution_time = base_time + (offset_ms / 1000.0), in ms
ExecutionTime(base_time, offset_ms) == base_time + offset_ms

\* BookingAttempt(timestamp=attempt_start, offset_ms=offset_ms, response_time_ms=0.0)
BookingAttempt(attempt_start, offset_ms) ==
    [ timestamp |-> attempt_start,
      offset_ms |-> offset_ms,
      response_time_ms |-> 0,
      status_code |-> NoneInt,
      success |-> FALSE,
      error_message |-> NoneStr,
      round_trip_latency_ms |-> NoneInt ]

\* a coroutine that has not yet reached `attempt = BookingAttempt(...)`
Unfired == BookingAttempt(0, 0)

\* the coroutine takes attempt_start, creates its record and issues the first request
Fire(t, time) ==
    [ t EXCEPT !.pc = "request",
               !.wake = 0,
               !.issued = time,
               !.requests = 1,
               !.attempt = BookingAttempt(time, t.offset_ms) ]

\* the wait computed with its operands exchanged
WaitTimeReversed(execution_time, current_time) == current_time - execution_time

\* wait_time = execution_time - current_time
WaitTime(execution_time, current_time) == execution_time - current_time

\* _schedule_booking_attempt up to its first suspension
ScheduleStart(base_time, job, time) ==
    LET execution_time == ExecutionTime(base_time, job.offset_ms)
        wait_time == WaitTime(execution_time, time)
        t == [ pc |-> "sleep",
               offset_ms |-> job.offset_ms,
               tee_time |-> job.tee_time,
               execution_time |-> execution_time,
               dispatched |-> time,
               wake |-> execution_time,
               issued |-> 0,
               requests |-> 0,
               attempt |-> Unfired,
               in_retry |-> FALSE,
               retry_count |-> 0,
               cutoff_time |-> 0,
               checked |-> 0,
               finished |-> 0,
               first_outcome |-> NoOutcome,
               last_outcome |-> NoOutcome,
               last_kept |-> FALSE,
               all_retryable |-> FALSE,
               raised |-> FALSE,
               result |-> "pending" ]
    IN  IF wait_time > 0 THEN t ELSE Fire(t, time)

----------------------------------------------------------------------------
(* Requests and classification *)

\* _make_booking_request taking every status but 400 for a success
MakeBookingRequestNot400(o) ==
    IF o.kind = "response"
    THEN IF o.status # 400
         THEN <<TRUE, o.status, NoneStr>>
         ELSE <<FALSE, o.status, o.text>>
    ELSE <<FALSE, 0, o.text>>

\* what _make_booking_request returns for an outcome that does not escape it
MakeBookingRequest(o) ==
    IF o.kind = "response"
    THEN IF o.status = 200
         THEN <<TRUE, o.status, NoneStr>>
         ELSE <<FALSE, o.status, o.text>>
    ELSE <<FALSE, 0, o.text>>

\* whether the outcome leaves _make_booking_request as an exception
Escapes(o) == o.kind = "Exception"

\* the test of line 270 without .lower()
IsBookingNotOpenCaseSensitive(status_code, error_msg) ==
    status_code = 400 /\ Contains(Marker, OrEmpty(error_msg))

\* the test of line 270 on the status alone
IsBookingNotOpenAny400(status_code, error_msg) == status_code = 400

\* status_code == 400 and "booking not open" in (error_msg or "").lower()
IsBookingNotOpen(status_code, error_msg) ==
    status_code = 400 /\ Contains(Marker, Lower(OrEmpty(error_msg)))

\* the loop of _smart_retry without the test of line 337
KeepRetryingAny400(success, status_code, error_msg) ==
    ~(success \/ status_code # 400)

\* the two returns inside the loop of _smart_retry are not taken
KeepRetrying(success, status_code, error_msg) ==
    /\ ~(success \/ status_code # 400)
    /\ ~(~Contains(Marker, Lower(OrEmpty(error_msg))))

\* the loop condition without the cutoff test
LoopConditionNoCutoff(cfg, retry_count, time, cutoff_time) ==
    retry_count < cfg.max_retry_attempts

\* the loop condition with <= for <
LoopConditionOffByOne(cfg, retry_count, time, cutoff_time) ==
    retry_count <= cfg.max_retry_attempts /\ time < cutoff_time

\* a loop whose first iteration runs before the condition is tested
LoopConditionAfterFirst(cfg, retry_count, time, cutoff_time) ==
    \/ retry_count = 0
    \/ retry_count < cfg.max_retry_attempts /\ time < cutoff_time

\* a loop without condition: while True
LoopConditionAlways(cfg, retry_count, time, cutoff_time) == TRUE

\* retry_count < max_retry_attempts and time.time() < cutoff_time
LoopCondition(cfg, retry_count, time, cutoff_time) ==
    retry_count < cfg.max_retry_attempts /\ time < cutoff_time

\* the coroutine returns its record
Return(t, time) ==
    [ t EXCEPT !.pc = "done", !.wake = 0, !.issued = 0, !.finished = time,
               !.result = "BookingAttempt" ]

\* the latencies measured anew when _smart_retry returns
RetryResultLatency(t, r, time) ==
    Return([ t EXCEPT !.attempt.success = r[1],
                      !.attempt.status_code = r[2],
                      !.attempt.error_message = r[3],
                      !.attempt.response_time_ms = time - t.attempt.timestamp,
                      !.attempt.round_trip_latency_ms = time - t.attempt.timestamp ],
           time)

\* the result of _smart_retry dropped: the record keeps the first answer
RetryResultStale(t, r, time) == Return(t, time)

\* attempt.success, .status_code, .error_message = the triple _smart_retry returned
RetryResult(t, r, time) ==
    Return([ t EXCEPT !.attempt.success = r[1],
                      !.attempt.status_code = r[2],
                      !.attempt.error_message = r[3] ], time)

\* the final return giving the text of the last rejection, which in the loop
\* is a 'booking not open' body
MaxRetriesResultLastBody(retry_count) == <<FALSE, 400, BodyNotOpenYet>>

\* the return after the loop of _smart_retry: line 340
MaxRetriesResult(retry_count) == <<FALSE, 400, MaxRetriesMsg(retry_count)>>

\* the head of the while loop of _smart_retry
LoopTop(cfg, t, time) ==
    IF LoopCondition(cfg, t.retry_count, time, t.cutoff_time)
    THEN [ t EXCEPT !.pc = "retry_sleep",
                    !.issued = 0,
                    !.checked = time,
                    !.wake = time + cfg.retry_interval_ms ]
    ELSE RetryResult(t, MaxRetriesResult(t.retry_count), time)

\* _schedule_booking_attempt without its except clause: the exception leaves
\* the coroutine and gather collects it in place of the record
OnExceptionEscapes(t, e, time) ==
    [ t EXCEPT !.pc = "done", !.wake = 0, !.issued = 0, !.finished = time,
               !.attempt.error_message = e, !.result = "Exception" ]

\* except Exception as e: attempt.error_message = str(e); return attempt
OnException(t, e, time) ==
    Return([ t EXCEPT !.attempt.error_message = e ], time)

\* the instant the burst was dispatched taken for the unit's own first attempt
InitialStartOfBurst(t) == t.dispatched

\* the initial_start handed to _smart_retry at line 272: attempt_start of the unit
InitialStart(t) == t.attempt.timestamp

\* cutoff_time = initial_start + self.config.cutoff_seconds
CutoffTime(cfg, initial_start) == initial_start + cfg.cutoff_seconds

\* bookkeeping of the answers a unit got (no code reads it)
NoteFirst(t, o) ==
    [ t EXCEPT !.first_outcome = o, !.raised = Escapes(o) ]

NoteRetry(t, o, kept) ==
    [ t EXCEPT !.last_outcome = o,
               !.last_kept = kept,
               !.all_retryable = t.all_retryable /\ kept,
               !.raised = Escapes(o) ]

\* the first request is answered: lines 259-277
FirstResponse(cfg, t0, o, time) ==
    LET t == NoteFirst(t0, o) IN
    IF Escapes(o) THEN OnException(t, o.text, time)
    ELSE
      LET r == MakeBookingRequest(o)
          response_time == time - t.attempt.timestamp
          a == [ t.attempt EXCEPT !.response_time_ms = response_time,
                                  !.status_code = r[2],
                                  !.success = r[1],
                                  !.error_message = r[3],
                                  !.round_trip_latency_ms = response_time ]
          t1 == [ t EXCEPT !.attempt = a ]
      IN  IF IsBookingNotOpen(r[2], r[3])
          THEN LoopTop(cfg,
                       [ t1 EXCEPT !.in_retry = TRUE,
                                   !.all_retryable = TRUE,
                                   !.retry_count = 0,
                                   !.cutoff_time = CutoffTime(cfg, InitialStart(t)) ],
                       time)
          ELSE Return(t1, time)

\* a request of the retry loop is answered: lines 329-338
RetryResponse(cfg, t, o, time) ==
    IF Escapes(o) THEN OnException(NoteRetry(t, o, FALSE), o.text, time)
    ELSE
      LET r == MakeBookingRequest(o)
          kept == KeepRetrying(r[1], r[2], r[3])
          t1 == [ NoteRetry(t, o, kept) EXCEPT !.retry_count = t.retry_count + 1 ]
      IN  IF kept
          THEN LoopTop(cfg, t1, time)
          ELSE RetryResult(t1, r, time)

----------------------------------------------------------------------------
(* Burst summary *)

RECURSIVE Sum(_)
Sum(s) == IF s = << >> THEN 0 ELSE Head(s) + Sum(Tail(s))

\* the last minimal element for the first
FastestLast(successful) ==
    successful[CHOOSE i \in 1..Len(successful) :
        /\ \A j \in 1..Len(successful) :
              successful[i].response_time_ms <= successful[j].response_time_ms
        /\ \A j \in (i + 1)..Len(successful) :
              successful[j].response_time_ms > successful[i].response_time_ms]

\* min(successful, key=lambda x: x.response_time_ms): the first minimal element
Fastest(successful) ==
    successful[CHOOSE i \in 1..Len(successful) :
        /\ \A j \in 1..Len(successful) :
              successful[i].response_time_ms <= successful[j].response_time_ms
        /\ \A j \in 1..(i - 1) :
              successful[j].response_time_ms > successful[i].response_time_ms]

\* [a.response_time_ms for a in attempts]
ResponseTimesUnfiltered(as) == [i \in 1..Len(as) |-> as[i].response_time_ms]

\* [a.response_time_ms for a in attempts if a.response_time_ms]
RECURSIVE ResponseTimes(_)
ResponseTimes(as) ==
    IF as = << >> THEN << >>
    ELSE (IF Head(as).response_time_ms # 0
          THEN <<Head(as).response_time_ms>> ELSE << >>)
         \o ResponseTimes(Tail(as))

\* what log_burst_summary logs; the average is kept as <<sum, len>>, and a line
\* that is not logged is << >>
log_burst_summary(as) ==
    LET successful == SelectSeq(as, LAMBDA a : a.success)
        failed == SelectSeq(as, LAMBDA a : ~a.success)
        response_times == ResponseTimes(as)
    IN  [ successful |-> Len(successful),
          failed |-> Len(failed),
          fastest |-> IF successful # << >> THEN <<Fastest(successful)>> ELSE << >>,
          avg_response |-> IF response_times # << >>
                           THEN <<Sum(response_times), Len(response_times)>>
                           ELSE << >> ]

NoSummary == [ successful |-> 0, failed |-> 0, fastest |-> << >>, avg_response |-> << >> ]

----------------------------------------------------------------------------
(* The burst *)

Units == DOMAIN tasks

InFlight(t) == t.pc \in {"request", "retry_request"}
Sleeping(t) == t.pc \in {"sleep", "retry_sleep"}

\* s.split(sep)
RECURSIVE Split(_, _)
Split(s, sep) ==
    IF \E k \in 1..Len(s) : s[k] = sep
    THEN LET k == CHOOSE k \in 1..Len(s) :
                    s[k] = sep /\ \A j \in 1..(k - 1) : s[j] # sep
         IN  <<SubSeq(s, 1, k - 1)>> \o Split(SubSeq(s, k + 1, Len(s)), sep)
    ELSE <<s>>

Digits == <<"0","1","2","3","4","5","6","7","8","9">>
IsDigit(c) == \E d \in 1..10 : Digits[d] = c

\* whether int(p) returns, for a text of digits and other characters
IsInt(p) == p # << >> /\ \A k \in 1..Len(p) : IsDigit(p[k])

\* int(p)
RECURSIVE ToInt(_)
ToInt(p) ==
    IF p = << >> THEN 0
    ELSE 10 * ToInt(SubSeq(p, 1, Len(p) - 1))
            + (CHOOSE d \in 0..9 : Digits[d + 1] = p[Len(p)])

\* whether _calculate_booking_time raises: an IndexError for a missing part, a
\* ValueError of int() or of datetime.replace()
BookingTimeRaises(cfg) ==
    LET booking_time_parts == Split(cfg.booking_window_time, ":")
    IN  IF Len(booking_time_parts) < 3 THEN TRUE
        ELSE IF \E k \in 1..3 : ~IsInt(booking_time_parts[k]) THEN TRUE
        ELSE \/ ToInt(booking_time_parts[1]) > 23
             \/ ToInt(booking_time_parts[2]) > 59
             \/ ToInt(booking_time_parts[3]) > 59

\* _calculate_booking_time, when it returns: the timestamp in ms
CalculateBookingTime(cfg) ==
    LET booking_time_parts == Split(cfg.booking_window_time, ":")
    IN  Midnight
          + 1000 * ((ToInt(booking_time_parts[1]) * 60
                        + ToInt(booking_time_parts[2])) * 60
                    + ToInt(booking_time_parts[3]))

\* str(e) of the exception of _calculate_booking_time and of initialize_session
TextBadWindow == <<"l","i","s","t"," ","i","n","d","e","x">>
TextNoSession == <<"l","o","g","i","n">>

\* a gather that returns as soon as one coroutine has ended with a successful
\* record, the others dropped
GatherReadyFirstSuccess(ts) ==
    \/ \A i \in DOMAIN ts : ts[i].pc = "done"
    \/ \E i \in DOMAIN ts : ts[i].pc = "done" /\ ts[i].attempt.success

\* a gather that returns when the first coroutine has ended
GatherReadyAny(ts) == \E i \in DOMAIN ts : ts[i].pc = "done"

\* asyncio.gather returns when every coroutine has ended
GatherReady(ts) == \A i \in DOMAIN ts : ts[i].pc = "done"

\* [a for a in attempts if a.success]
SuccessfulAttempts(as) == SelectSeq(as, LAMBDA a : a.success)

\* a handler that swallows the error and returns the empty list
OnFatalSwallow(e) == [ outcome |-> "returned", error |-> NoneStr ]

\* run_burst_booking, when initialize_session or execute_burst_strategy raises:
\* the error is logged and raised again
OnFatal(e) == [ outcome |-> "raised", error |-> e ]

\* the records in the order in which the coroutines ended (as
\* asyncio.as_completed would give them), the earlier task first when two
\* ended at the same instant
GatherAttemptsAsCompleted(ts) ==
    LET n == Len(ts)
        rank(i) == 1 + Cardinality({ j \in 1..n :
                          \/ ts[j].finished < ts[i].finished
                          \/ ts[j].finished = ts[i].finished /\ j < i })
        byEnd == [ k \in 1..n |-> ts[CHOOSE i \in 1..n : rank(i) = k] ]
        rec(t) == t.attempt
        kept == SelectSeq(byEnd, LAMBDA t : t.result = "BookingAttempt")
    IN  [ k \in 1..Len(kept) |-> rec(kept[k]) ]

\* results of asyncio.gather(*booking_tasks, return_exceptions=True) that are
\* BookingAttempts, in the order of the tasks
RECURSIVE GatherAttempts(_)
GatherAttempts(ts) ==
    IF ts = << >> THEN << >>
    ELSE (IF Head(ts).result = "BookingAttempt" THEN <<Head(ts).attempt>> ELSE << >>)
         \o GatherAttempts(Tail(ts))

\* ... and those that are exceptions
RECURSIVE GatherExceptions(_)
GatherExceptions(ts) ==
    IF ts = << >> THEN << >>
    ELSE (IF Head(ts).result = "Exception" THEN <<Head(ts).attempt.error_message>> ELSE << >>)
         \o GatherExceptions(Tail(ts))

InitWith(bookers) ==
    /\ \E b \in bookers : config = b.config /\ target_times = b.target_times
    /\ booking_time = 0
    /\ now = 0
    /\ main_pc = "start"
    /\ tasks = << >>
    /\ attempts = << >>
    /\ exceptions = << >>
    /\ summary = NoSummary
    /\ summaries = 0
    /\ session = "none"
    /\ run_outcome = "running"
    /\ run_error = NoneStr
    /\ successful_attempts = << >>

Init == InitWith(Bookers)

\* run_burst_booking awaits initialize_session, which returns or raises
InitializeSession(ok) ==
    /\ main_pc = "start"
    /\ session = "none"
    /\ IF ok
       THEN /\ session' = "initialized"
            /\ main_pc' = "ready"
            /\ UNCHANGED <<run_outcome, run_error>>
       ELSE /\ session' = "failed"
            /\ run_outcome' = OnFatal(TextNoSession).outcome
            /\ run_error' = OnFatal(TextNoSession).error
            /\ UNCHANGED main_pc
    /\ UNCHANGED <<config, target_times, booking_time, now, tasks, attempts,
                   exceptions, summary, summaries, successful_attempts>>

\* execute_burst_strategy up to `await asyncio.gather(...)`: every coroutine is
\* created and runs to its first suspension
ExecuteBurstStrategy ==
    /\ main_pc = "ready"
    /\ ~BookingTimeRaises(config)
    /\ booking_time' = CalculateBookingTime(config)
    /\ tasks' = LET jobs == Jobs(config, target_times)
                IN  [ i \in 1..Len(jobs) |->
                        ScheduleStart(CalculateBookingTime(config), jobs[i], now) ]
    /\ main_pc' = "gather"
    /\ UNCHANGED <<config, target_times, now, attempts, exceptions, summary,
                   summaries, run_vars>>

\* execute_burst_strategy when _calculate_booking_time raises at line 191: the
\* exception leaves it and run_burst_booking raises it again
ExecuteBurstStrategyRaises ==
    /\ main_pc = "ready"
    /\ BookingTimeRaises(config)
    /\ main_pc' = "raised"
    /\ run_outcome' = OnFatal(TextBadWindow).outcome
    /\ run_error' = OnFatal(TextBadWindow).error
    /\ UNCHANGED <<config, target_times, booking_time, now, tasks, attempts,
                   exceptions, summary, summaries, session, successful_attempts>>

\* asyncio.sleep(wait_time) is over
Wake(i) ==
    /\ main_pc = "gather"
    /\ tasks[i].pc = "sleep"
    /\ now >= tasks[i].wake
    /\ tasks' = [tasks EXCEPT ![i] = Fire(tasks[i], now)]
    /\ UNCHANGED <<config, target_times, booking_time, now, main_pc, attempts,
                   exceptions, summary, summaries, run_vars>>

\* the first request of unit i is answered with o; an answer takes at least
\* one ms, so that a measured latency is never 0.0
Respond(i, o) ==
    /\ main_pc = "gather"
    /\ tasks[i].pc = "request"
    /\ now > tasks[i].issued
    /\ tasks' = [tasks EXCEPT ![i] = FirstResponse(config, tasks[i], o, now)]
    /\ UNCHANGED <<config, target_times, booking_time, now, main_pc, attempts,
                   exceptions, summary, summaries, run_vars>>

\* asyncio.sleep(retry_interval_ms / 1000.0) is over: the request is re-issued
RetryWake(i) ==
    /\ main_pc = "gather"
    /\ tasks[i].pc = "retry_sleep"
    /\ now >= tasks[i].wake
    /\ tasks' = [tasks EXCEPT ![i] = [ @ EXCEPT !.pc = "retry_request",
                                                !.wake = 0,
                                                !.issued = now,
                                                !.requests = @ + 1 ]]
    /\ UNCHANGED <<config, target_times, booking_time, now, main_pc, attempts,
                   exceptions, summary, summaries, run_vars>>

\* a request of the retry loop of unit i is answered with o
RetryRespond(i, o) ==
    /\ main_pc = "gather"
    /\ tasks[i].pc = "retry_request"
    /\ now > tasks[i].issued
    /\ tasks' = [tasks EXCEPT ![i] = RetryResponse(config, tasks[i], o, now)]
    /\ UNCHANGED <<config, target_times, booking_time, now, main_pc, attempts,
                   exceptions, summary, summaries, run_vars>>

\* gather returns: lines 207-219; execute_burst_strategy returns the records
\* and run_burst_booking, which awaited it, returns the successful ones
\* (lines 404-416) with no suspension in between
GatherDone ==
    /\ main_pc = "gather"
    /\ GatherReady(tasks)
    /\ attempts' = GatherAttempts(tasks)
    /\ exceptions' = GatherExceptions(tasks)
    /\ summary' = log_burst_summary(GatherAttempts(tasks))
    /\ summaries' = summaries + 1
    /\ main_pc' = "returned"
    /\ successful_attempts' = SuccessfulAttempts(GatherAttempts(tasks))
    /\ run_outcome' = "returned"
    /\ UNCHANGED <<config, target_times, booking_time, now, tasks, session,
                   run_error>>

\* one millisecond passes; a sleep is resumed within MaxJitter of its deadline
\* and a request is answered within MaxRequestTime
Tick ==
    /\ main_pc = "gather"
    /\ \E i \in Units : tasks[i].pc # "done"
    /\ \A i \in Units :
          /\ Sleeping(tasks[i]) => now < tasks[i].wake + MaxJitter
          /\ InFlight(tasks[i]) => now < tasks[i].issued + MaxRequestTime
    /\ now' = now + 1
    /\ UNCHANGED <<config, target_times, booking_time, main_pc, tasks, attempts,
                   exceptions, summary, summaries, run_vars>>

Next ==
    \/ \E ok \in BOOLEAN : InitializeSession(ok)
    \/ ExecuteBurstStrategy
    \/ ExecuteBurstStrategyRaises
    \/ \E i \in Units : Wake(i)
    \/ \E i \in Units, o \in Outcomes : Respond(i, o)
    \/ \E i \in Units : RetryWake(i)
    \/ \E i \in Units, o \in Outcomes : RetryRespond(i, o)
    \/ GatherDone
    \/ Tick

Spec == Init /\ [][Next]_vars

\* the event loop runs: the clock advances, a timer due is served and a request
\* is answered or fails within its timeout (ClientTimeout(total=5), line 302)
FairInit == InitWith(FairBookers)

FairSpec == FairInit /\ [][Next]_vars /\ WF_vars(Next)

----------------------------------------------------------------------------
(* Claims *)

Returned == main_pc = "returned"
Done(i) == tasks[i].pc = "done"
NumJobs == Len(config.burst_offsets) * Len(target_times)

\* the unit ended in the except clause, or its last answer was a transport failure
Failing(i) ==
    Done(i) /\ (tasks[i].raised \/ tasks[i].attempt.status_code = 0)

\* the unit left the retry loop by its final return (retry bound or cutoff)
CutoffOutcome(i) ==
    /\ Done(i) /\ tasks[i].in_retry /\ ~tasks[i].raised
    /\ tasks[i].attempt.error_message = MaxRetriesMsg(tasks[i].retry_count)

\* C1: once execute_burst_strategy has returned, the returned list holds exactly
\* one BookingAttempt for every (offset, target) pair of burst_offsets x
\* target_times, duplicates of an offset counted, whatever the retries and the
\* exceptions of the units: it has len(burst_offsets) * len(target_times)
\* records, the i-th being the record of the i-th pair.
C1_OneRecordPerJob ==
    Returned =>
        /\ Len(attempts) = NumJobs
        /\ Len(tasks) = NumJobs
        /\ \A i \in 1..NumJobs :
              /\ i \in DOMAIN attempts
              /\ attempts[i] = tasks[i].attempt
              /\ attempts[i].offset_ms =
                    config.burst_offsets[((i - 1) \div Len(target_times)) + 1]

\* a burst with a duplicated offset has returned, one unit having ended in the
\* except clause and another having retried
C1_Witness ==
    /\ Returned
    /\ config.burst_offsets = <<-3, -3>>
    /\ \E i, j \in Units :
          /\ tasks[i].raised
          /\ tasks[j].in_retry /\ tasks[j].retry_count >= 1

\* C2: at every moment the number of units inside their network phase (a
\* request issued and not yet answered, first attempt or retry) is at most
\* config.max_concurrent_requests.
C2_AdmissionBound ==
    Cardinality({ i \in Units : InFlight(tasks[i]) }) <= config.max_concurrent_requests

\* C3: a unit that fails (exception or transport failure) finalizes a record
\* with success false, and changes nothing of any other unit: every unit fires
\* within the scheduling delay of its own instant whatever the others did, the
\* step in which a unit fails leaves every other unit as it was, and the burst
\* returns with the finalized record of every unit.
C3_State ==
    /\ \A i \in Units :
          /\ Failing(i) => tasks[i].result = "BookingAttempt" /\ ~tasks[i].attempt.success
          /\ tasks[i].pc # "sleep" =>
                LET due == IF tasks[i].execution_time > tasks[i].dispatched
                           THEN tasks[i].execution_time ELSE tasks[i].dispatched
                IN  tasks[i].attempt.timestamp \in due..(due + MaxJitter)
          /\ tasks[i].pc = "sleep" => now <= tasks[i].execution_time + MaxJitter
    /\ Returned =>
          \A i \in Units :
              /\ Done(i)
              /\ \E k \in DOMAIN attempts : attempts[k] = tasks[i].attempt
              /\ Failing(i) => \E k \in DOMAIN attempts :
                                  attempts[k] = tasks[i].attempt /\ ~attempts[k].success

C3_Step ==
    \A i \in Units :
        (i \in DOMAIN tasks' /\ ~Failing(i) /\ Failing(i)')
            => \A j \in Units \ {i} : j \in DOMAIN tasks' /\ tasks'[j] = tasks[j]

\* C3: failure isolation, in every state (C3_State) and in every step (C3_Step)
C3_FailureIsolation == [](C3_State) /\ [][C3_Step]_vars

\* the burst has returned; one unit raised, one had a transport failure in its
\* retry loop after the other had already failed
C3_Witness ==
    /\ Returned
    /\ \E i, j \in Units :
          /\ i # j
          /\ tasks[i].raised
          /\ tasks[j].attempt.status_code = 0 /\ tasks[j].in_retry
          /\ tasks[j].finished > tasks[i].finished

\* every answer the unit got was a retryable rejection and the unit has ended
AlwaysRejected(i) == Done(i) /\ tasks[i].all_retryable

\* C4 as stated: a job whose requests are always rejected as 'booking not open'
\* ends with the cutoff outcome no later than one retry interval after its
\* first-attempt instant + cutoff_seconds.
C4_WithinOneInterval ==
    \A i \in Units :
        AlwaysRejected(i) =>
            /\ CutoffOutcome(i)
            /\ tasks[i].finished <=
                  tasks[i].attempt.timestamp + config.cutoff_seconds
                      + config.retry_interval_ms

\* C4 amended: such a job ends with the cutoff outcome (success false, status
\* 400); every iteration of the retry loop begins before first-attempt instant
\* + cutoff_seconds, and the loop ends when the answer of the last iteration
\* begun arrives: no later than that iteration's beginning + the retry sleep
\* (the interval and the scheduling delay) + the duration of its request.  With
\* no iteration at all it ends when the first answer arrives.
C4_WithinOneIteration ==
    \A i \in Units :
        AlwaysRejected(i) =>
            /\ CutoffOutcome(i)
            /\ ~tasks[i].attempt.success /\ tasks[i].attempt.status_code = 400
            /\ tasks[i].cutoff_time = tasks[i].attempt.timestamp + config.cutoff_seconds
            /\ tasks[i].retry_count = 0 =>
                  tasks[i].finished =
                      tasks[i].attempt.timestamp + tasks[i].attempt.response_time_ms
            /\ tasks[i].retry_count > 0 =>
                  /\ tasks[i].checked < tasks[i].cutoff_time
                  /\ tasks[i].finished <=
                        tasks[i].checked + config.retry_interval_ms + MaxJitter
                            + MaxRequestTime

\* an always rejected job that began its last iteration before the cutoff and
\* ended more than one retry interval after it
C4_Witness ==
    \E i \in Units :
        /\ AlwaysRejected(i) /\ CutoffOutcome(i)
        /\ tasks[i].retry_count >= 1
        /\ tasks[i].finished > tasks[i].cutoff_time + config.retry_interval_ms

FirstAnswered(i) == tasks[i].first_outcome.kind # "none"

\* C6: a first answer of status 400 whose body holds 'booking not open' in any
\* letter case ('Booking not open yet') enters the retry path; status 409 'no
\* availability', and any other answer that is neither 200 nor such a 400,
\* finalizes the record as a failure with no retry request; status 200
\* finalizes it as a success, the retry path never entered.
C6_FirstClassification ==
    \A i \in Units :
        FirstAnswered(i) /\ tasks[i].first_outcome.kind # "Exception" =>
            LET o == tasks[i].first_outcome
            IN  CASE o.status = 400 /\ o.text \in {BodyNotOpenYet, BodyNotOpenLower} ->
                       tasks[i].in_retry
                  [] o.status = 200 ->
                       /\ Done(i) /\ ~tasks[i].in_retry /\ tasks[i].requests = 1
                       /\ tasks[i].attempt.success
                       /\ tasks[i].attempt.status_code = 200
                  [] OTHER ->
                       /\ Done(i) /\ ~tasks[i].in_retry /\ tasks[i].requests = 1
                       /\ ~tasks[i].attempt.success
                       /\ tasks[i].attempt.status_code = o.status
                       /\ tasks[i].attempt.error_message = o.text

\* one unit answered 409 'no availability' and another 'Booking not open yet',
\* which re-issued its request
C6_Witness ==
    \E i, j \in Units :
        /\ tasks[i].first_outcome.status = 409 /\ Done(i)
        /\ tasks[j].first_outcome.text = BodyNotOpenYet /\ tasks[j].requests >= 2

\* C7: the decision 'retryable' taken for a first answer and the decision 'keep
\* retrying' taken for a later answer are the same function of (status, body):
\* each is what the other test gives for that answer, and a first answer of
\* one job and a later answer of any job that are equal got the same decision,
\* whatever the time and the retry counts.
C7_SameClassification ==
    /\ \A i \in Units :
          /\ FirstAnswered(i) /\ tasks[i].first_outcome.kind # "Exception" =>
                LET r == MakeBookingRequest(tasks[i].first_outcome)
                IN  tasks[i].in_retry = KeepRetrying(r[1], r[2], r[3])
          /\ tasks[i].last_outcome.kind \notin {"none", "Exception"} =>
                LET r == MakeBookingRequest(tasks[i].last_outcome)
                IN  tasks[i].last_kept = IsBookingNotOpen(r[2], r[3])
    /\ \A i, j \in Units :
          (/\ FirstAnswered(i)
           /\ tasks[i].first_outcome.kind # "Exception"
           /\ tasks[j].last_outcome = tasks[i].first_outcome)
              => tasks[i].in_retry = tasks[j].last_kept

\* a first answer and a later answer of another job, at another time, are the
\* same non-retryable 400
C7_Witness ==
    \E i, j \in Units :
        /\ i # j
        /\ tasks[i].first_outcome.text = BodyInvalid
        /\ tasks[j].last_outcome = tasks[i].first_outcome
        /\ tasks[j].finished # tasks[i].finished

\* C8: the scheduled fire instant of job (O, T) is the window-open instant + O
\* ms, whatever T, for negative and positive O alike, and every pair has a unit.
C8_FireInstant ==
    main_pc \in {"gather", "returned"} =>
        /\ booking_time = Midnight + 2000
        /\ Len(tasks) = NumJobs
        /\ \A i \in Units :
              LET O == config.burst_offsets[((i - 1) \div Len(target_times)) + 1]
              IN  /\ tasks[i].offset_ms = O
                  /\ tasks[i].tee_time = target_times[((i - 1) % Len(target_times)) + 1]
                  /\ tasks[i].execution_time = booking_time + O
        /\ \A i, j \in Units :
              tasks[i].offset_ms = tasks[j].offset_ms
                  => tasks[i].execution_time = tasks[j].execution_time

\* a burst with a negative and a positive offset has been scheduled
C8_Witness ==
    /\ main_pc = "gather"
    /\ \E i, j \in Units :
          /\ tasks[i].offset_ms < 0 /\ tasks[j].offset_ms > 0
          /\ tasks[i].execution_time < booking_time
          /\ tasks[j].execution_time > booking_time

\* the rearrangements of a list
Perms(s) ==
    { [i \in 1..Len(s) |-> s[f[i]]] :
        f \in { g \in [1..Len(s) -> 1..Len(s)] :
                  \A a, b \in 1..Len(s) : a # b => g[a] # g[b] } }

Successes == { i \in DOMAIN attempts : attempts[i].success }
MinLatency(i) ==
    \A j \in Successes : attempts[i].response_time_ms <= attempts[j].response_time_ms

\* C9 as stated: the summary's success and failure counts sum to the number of
\* records, and the fastest reported is a successful record of minimum latency
\* and, among those, of earliest fire timestamp, whatever the order of the
\* records.
C9_FastestEarliest ==
    Returned =>
        /\ summary.successful + summary.failed = Len(attempts)
        /\ Successes # {} =>
              /\ summary.fastest # << >>
              /\ \E i \in Successes :
                    /\ summary.fastest[1] = attempts[i]
                    /\ MinLatency(i)
                    /\ \A j \in Successes :
                          MinLatency(j) => attempts[i].timestamp <= attempts[j].timestamp

\* C9 amended: the counts are those of the successful and of the failed records
\* and sum to the number of records; the fastest reported is the successful
\* record of minimum latency that comes first in the list (ties are broken by
\* position, not by fire timestamp); the counts and the fastest latency do not
\* depend on the order of the records.
C9_FastestFirst ==
    Returned =>
        /\ summary.successful = Cardinality(Successes)
        /\ summary.successful + summary.failed = Len(attempts)
        /\ Successes = {} => summary.fastest = << >>
        /\ Successes # {} =>
              /\ summary.fastest # << >>
              /\ \E i \in Successes :
                    /\ summary.fastest[1] = attempts[i]
                    /\ MinLatency(i)
                    /\ \A j \in Successes : MinLatency(j) => i <= j
        /\ \A p \in Perms(attempts) :
              LET q == log_burst_summary(p)
              IN  /\ q.successful = summary.successful
                  /\ q.failed = summary.failed
                  /\ (q.fastest = << >>) = (summary.fastest = << >>)
                  /\ q.fastest # << >> =>
                        q.fastest[1].response_time_ms =
                            summary.fastest[1].response_time_ms

\* two successes of equal latency, the one that fired later first in the list
C9_Witness ==
    /\ Returned
    /\ \E i, j \in Successes :
          /\ i < j
          /\ MinLatency(i) /\ MinLatency(j)
          /\ attempts[i].timestamp > attempts[j].timestamp

RECURSIVE SumLatency(_)
SumLatency(n) == IF n = 0 THEN 0 ELSE attempts[n].response_time_ms + SumLatency(n - 1)

Measured == { i \in DOMAIN attempts : attempts[i].response_time_ms # 0 }

C11_SessionFailureFatal ==
    /\ session = "failed" =>
          /\ tasks = << >> /\ attempts = << >> /\ summaries = 0
          /\ main_pc = "start"
          /\ run_outcome = "raised" /\ run_error = TextNoSession
          /\ successful_attempts = << >>
    /\ run_outcome = "returned" =>
          /\ session = "initialized" /\ Returned
          /\ run_error = NoneStr
          /\ successful_attempts = SuccessfulAttempts(attempts)
    /\ session = "none" => run_outcome = "running" /\ tasks = << >>

C11_Witness == session = "failed" /\ run_outcome = "raised"

\* C12 as stated: only a failure of initialize_session ends the burst by an
\* error; once the session is initialized execute_burst_strategy returns, an
\* unparsable booking_window_time included.
C12_OnlySessionFatal ==
    /\ run_outcome = "raised" => session = "failed"
    /\ main_pc # "raised"

\* an answer that is a 400 'booking not open' rejection, read off the answer itself
NotOpenAnswer(o) ==
    o.kind = "response" /\ o.status = 400 /\ o.text = BodyNotOpenYet

\* C13: in _smart_retry the first answer that is not a 'booking not open'
\* rejection ends the loop at once: a 200 makes the record a success, any other
\* answer, a transport failure (status 0) included, makes it a failure with the
\* status and the error text of that answer, and no request follows it: the
\* unit made one request per answer of the loop plus the first.
C13_NonRetryableEndsLoop ==
    \A i \in Units :
        LET o == tasks[i].last_outcome
            a == tasks[i].attempt
        IN  (o.kind \in {"response", "ClientError"} /\ ~NotOpenAnswer(o)) =>
                /\ Done(i) /\ tasks[i].in_retry /\ ~tasks[i].last_kept
                /\ tasks[i].requests = 1 + tasks[i].retry_count
                /\ a.success = (o.status = 200)
                /\ a.status_code = o.status
                /\ a.error_message = IF o.status = 200 THEN NoneStr ELSE o.text
                /\ o.kind = "ClientError" => a.status_code = 0

\* a retry request ended by a transport failure, another by a 200, another by a 409
C13_Witness ==
    /\ \E i \in Units :
          /\ tasks[i].last_outcome.kind = "ClientError"
          /\ tasks[i].requests >= 2 /\ Done(i)
    /\ \E i \in Units :
          /\ tasks[i].last_outcome.status \in {200, 409}
          /\ tasks[i].requests >= 2 /\ Done(i)

\* C14: the retry path is entered only after the first request was answered by
\* a 'booking not open' rejection; a unit whose first request ended in a 200, in
\* another status, in a transport failure or in an exception is finished with
\* that one request, and a unit not yet answered has made at most one.
C14_RetryOnlyAfterRetryable ==
    \A i \in Units :
        LET t == tasks[i] IN
        /\ (t.in_retry \/ t.requests >= 2 \/ t.retry_count > 0
                \/ t.pc \in {"retry_sleep", "retry_request"})
              => NotOpenAnswer(t.first_outcome)
        /\ (FirstAnswered(i) /\ ~NotOpenAnswer(t.first_outcome)) =>
              /\ Done(i) /\ t.requests = 1 /\ ~t.in_retry
              /\ t.last_outcome = NoOutcome
        /\ ~FirstAnswered(i) => t.requests <= 1 /\ ~t.in_retry

\* first requests ended by an exception and by a transport failure, while
\* another unit is in its retry path
C14_Witness ==
    /\ \E i \in Units :
          /\ tasks[i].first_outcome.kind \in {"Exception", "ClientError"}
          /\ Done(i) /\ tasks[i].requests = 1
    /\ \E j \in Units : tasks[j].in_retry /\ tasks[j].requests >= 2

\* the error texts a server, the transport or an exception gave
AnswerTexts == { o.text : o \in Outcomes }

\* C15: a unit whose retry loop stopped by the retry bound or by the cutoff has
\* a failure record (success false) whose error text is the 'Max retries (n)
\* reached or cutoff time exceeded' text with its retry count n; that text is
\* none of the texts an answer gave, is not itself a 'booking not open' text,
\* and differs from the error text of every record finished by an answer.
C15_CutoffDistinguishable ==
    \A i \in Units :
        /\ AlwaysRejected(i) =>
              LET a == tasks[i].attempt IN
              /\ ~a.success /\ a.status_code = 400
              /\ a.error_message = MaxRetriesMsg(tasks[i].retry_count)
              /\ a.error_message \notin AnswerTexts
              /\ a.error_message # NoneStr
              /\ ~IsBookingNotOpen(a.status_code, a.error_message)
              /\ tasks[i].result = "BookingAttempt"
              /\ \A j \in Units :
                    Done(j) /\ ~AlwaysRejected(j) =>
                        tasks[j].attempt.error_message # a.error_message
        /\ (Done(i) /\ ~AlwaysRejected(i) /\ ~tasks[i].attempt.success) =>
              tasks[i].attempt.error_message \in AnswerTexts

\* one unit stopped by the cutoff or the retry bound next to one the server
\* rejected with a 400 of another body
C15_Witness ==
    \E i, j \in Units :
        /\ AlwaysRejected(i) /\ tasks[i].retry_count >= 1
        /\ Done(j) /\ ~AlwaysRejected(j)
        /\ tasks[j].attempt.status_code = 400
        /\ tasks[j].attempt.error_message = BodyInvalid

\* C16: the cutoff of a unit in its retry path is its own fire timestamp +
\* cutoff_seconds, not an instant of the burst: the cutoffs of two units
\* differ exactly by the difference of their fire timestamps, and an iteration
\* of a unit's loop began before the unit's own cutoff.
C16_CutoffPerJob ==
    /\ \A i \in Units :
          tasks[i].in_retry =>
              /\ tasks[i].cutoff_time
                    = tasks[i].attempt.timestamp + config.cutoff_seconds
              /\ tasks[i].attempt.timestamp >= tasks[i].dispatched
              /\ tasks[i].pc \in {"retry_sleep", "retry_request"} =>
                    tasks[i].checked < tasks[i].cutoff_time
    /\ \A i, j \in Units :
          tasks[i].in_retry /\ tasks[j].in_retry =>
              tasks[i].cutoff_time - tasks[j].cutoff_time
                  = tasks[i].attempt.timestamp - tasks[j].attempt.timestamp

\* two units in their retry paths that fired at different instants, one of
\* them after the dispatch of the burst, one still retrying after the cutoff
\* of the other
C16_Witness ==
    \E i, j \in Units :
        /\ tasks[i].in_retry /\ tasks[j].in_retry
        /\ tasks[i].attempt.timestamp > tasks[j].attempt.timestamp
        /\ tasks[i].pc = "retry_sleep"
        /\ tasks[i].checked >= tasks[j].cutoff_time

\* C17: no unit fires before its scheduled instant: a unit whose instant was
\* in the future at dispatch makes no request while it waits and its fire
\* timestamp is at or after the instant; a unit whose instant was already
\* reached at dispatch fires at the dispatch, without waiting.
C17_NoEarlyFire ==
    \A i \in Units :
        LET t == tasks[i] IN
        /\ t.pc = "sleep" =>
              /\ t.requests = 0 /\ t.attempt = Unfired
              /\ t.execution_time > t.dispatched
        /\ t.pc # "sleep" =>
              /\ t.requests >= 1
              /\ t.attempt.timestamp >= t.execution_time
              /\ t.execution_time > t.dispatched =>
                    t.attempt.timestamp > t.dispatched
              /\ t.execution_time <= t.dispatched =>
                    t.attempt.timestamp = t.dispatched

\* a unit that waited for its instant and fired, next to one whose instant
\* was past at dispatch
C17_Witness ==
    \E i, j \in Units :
        /\ tasks[i].pc # "sleep" /\ tasks[i].execution_time > tasks[i].dispatched
        /\ tasks[j].pc # "sleep" /\ tasks[j].execution_time < tasks[j].dispatched
        /\ tasks[i].attempt.timestamp > tasks[j].attempt.timestamp

\* unit i has finalized its record with success
Succeeded(i) == Done(i) /\ tasks[i].attempt.success

C18_State ==
    /\ \A i \in Units :
          /\ Done(i) => FirstAnswered(i) /\ tasks[i].requests >= 1
          /\ tasks[i].pc # "sleep" =>
                tasks[i].attempt.timestamp >= tasks[i].execution_time
          /\ (\E j \in Units : Succeeded(j)) /\ ~Done(i) => main_pc = "gather"
    /\ Returned =>
          /\ Len(attempts) = Len(tasks)
          /\ \A i \in Units : Done(i) /\ attempts[i] = tasks[i].attempt

C18_Step ==
    \A i \in Units :
        (i \in DOMAIN tasks' /\ ~Succeeded(i) /\ Succeeded(i)')
            => /\ main_pc' = main_pc
               /\ \A j \in Units \ {i} : j \in DOMAIN tasks' /\ tasks'[j] = tasks[j]

\* C18: no cross-unit cancellation. The step in which a unit finalizes with
\* success changes no other unit and does not end the gather; a unit is
\* finalized only after an answer to its own request, fired at or after its
\* own instant; the burst returns only when every unit is finalized, with the
\* record of every unit, so that several records may be successes.
C18_NoCancellation == [](C18_State) /\ [][C18_Step]_vars

\* the burst returned two successes, the second unit having fired after the
\* first had finalized with success, and having gone through its retry path
C18_Witness ==
    /\ Returned
    /\ \E i, j \in Units :
          /\ Succeeded(i) /\ Succeeded(j)
          /\ tasks[j].attempt.timestamp >= tasks[i].finished
          /\ tasks[j].in_retry

C20_State ==
    /\ summaries \in {0, 1}
    /\ summaries = 1 <=> Returned
    /\ summaries = 0 => summary = NoSummary
    /\ Returned =>
          /\ \A i \in Units : Done(i) /\ tasks[i].pc \notin
                {"sleep", "request", "retry_sleep", "retry_request"}
          /\ attempts = [ i \in Units |-> tasks[i].attempt ]
          /\ summary = log_burst_summary(attempts)
          /\ summary.successful + summary.failed = Len(tasks)

C20_Step ==
    (summaries' # summaries \/ summary' # summary) =>
        /\ summaries = 0 /\ summaries' = 1
        /\ tasks # << >> /\ tasks' = tasks
        /\ \A i \in Units : Done(i)
        /\ summary' = log_burst_summary([ i \in Units |-> tasks[i].attempt ])

\* C20: log_burst_summary runs once in a burst, in the step in which gather
\* ends: at that step every unit has finalized its record (none is suspended,
\* awaiting an answer or in its retry loop), and the summary is the summary of
\* exactly those records; it is never produced again nor changed.
C20_SummaryOnce == [](C20_State) /\ [][C20_Step]_vars

\* the summary of a burst of two units, one finalized by its retry loop after
\* the other had finalized
C20_Witness ==
    /\ summaries = 1 /\ summary # NoSummary
    /\ \E i, j \in Units :
          /\ tasks[i].in_retry /\ tasks[i].retry_count >= 1
          /\ tasks[i].finished > tasks[j].finished

\* the latest instant at which unit i can finalize: its fire instant, resumed
\* within the scheduling delay, one request, and max_retry_attempts iterations
\* of one sleep and one request each
Deadline(i) ==
    LET due == IF tasks[i].execution_time > tasks[i].dispatched
               THEN tasks[i].execution_time ELSE tasks[i].dispatched
    IN  due + MaxJitter + MaxRequestTime
          + config.max_retry_attempts
              * (config.retry_interval_ms + MaxJitter + MaxRequestTime)

C19_Bounded ==
    \A i \in Units :
        /\ Done(i) => tasks[i].finished <= Deadline(i)
        /\ ~Done(i) => now <= Deadline(i)

C19_Ends ==
    /\ main_pc = "gather" => run_outcome = "running"
    /\ run_outcome = "raised" => tasks = << >>
    /\ run_outcome = "returned" =>
          /\ Returned /\ tasks # << >>
          /\ \A i \in Units : Done(i) /\ tasks[i].result # "pending"

C19_State == C19_Bounded /\ C19_Ends

\* C19: with every request answered or failed within its timeout, every unit
\* of a dispatched burst finalizes, by a deadline that the configuration fixes
\* whatever the answers (all of them 'booking not open' included); every run
\* eventually ends, and a run that dispatched its burst ends only by the return
\* of execute_burst_strategy, every unit finalized.
C19_BurstCompletes == [](C19_State) /\ <>(run_outcome # "running")

\* a unit that was rejected as 'booking not open' at every request, up to the
\* retry bound, and the burst returned
C19_Witness ==
    /\ Returned
    /\ \E i \in Units :
          /\ AlwaysRejected(i)
          /\ tasks[i].retry_count = config.max_retry_attempts
          /\ tasks[i].retry_count >= 2

\* C21: in every finalized record, and in every record of the returned list,
\* success is true exactly when the final status code is 200; a record
\* finalized by the retry bound or the cutoff has success false and status 400,
\* and a record finalized by an exception has success false, with the status
\* of its first answer when it had one and no status otherwise.
C21_SuccessIffStatus200 ==
    /\ \A i \in Units :
          LET a == tasks[i].attempt IN
          /\ a.success => Done(i)
          /\ Done(i) =>
                /\ a.success <=> a.status_code = 200
                /\ AlwaysRejected(i) => ~a.success /\ a.status_code = 400
                /\ tasks[i].raised =>
                      /\ ~a.success
                      /\ a.status_code = IF tasks[i].in_retry THEN 400 ELSE NoneInt
    /\ \A k \in DOMAIN attempts :
          attempts[k].success <=> attempts[k].status_code = 200

\* the burst returned; a unit finalized by the cutoff or the retry bound
\* stands next to one finalized by an exception in its retry loop
C21_Witness ==
    /\ Returned
    /\ \E i, j \in Units :
          /\ AlwaysRejected(i)
          /\ tasks[j].raised /\ tasks[j].in_retry
          /\ attempts[i].status_code = 400 /\ attempts[j].status_code = 400

\* the fields of a record that only the first request sets
FirstRequestFields(a) ==
    <<a.timestamp, a.offset_ms, a.response_time_ms, a.round_trip_latency_ms>>

C22_State ==
    \A i \in Units :
        LET t == tasks[i] IN
        t.in_retry =>
            /\ t.attempt.offset_ms = t.offset_ms
            /\ t.attempt.response_time_ms \in 1..MaxRequestTime
            /\ t.attempt.round_trip_latency_ms = t.attempt.response_time_ms
            /\ Done(i) /\ t.retry_count >= 1 =>
                  t.finished - t.attempt.timestamp > t.attempt.response_time_ms

C22_Step ==
    \A i \in Units :
        FirstAnswered(i) =>
            /\ i \in DOMAIN tasks'
            /\ FirstRequestFields(tasks'[i].attempt) = FirstRequestFields(tasks[i].attempt)

\* C22: the retry path changes only success, status code and error detail of
\* the record. Once the first request of a unit is answered, no step changes
\* the record's fire timestamp, offset, response latency or round-trip
\* latency: in the retry path they are the offset of the unit and the latency
\* of the first request, less than the time the unit took when it retried.
C22_RetryFrame == [](C22_State) /\ [][C22_Step]_vars

\* two retries, ended by a success, later than the latency the record keeps
C22_Witness ==
    \E i \in Units :
        /\ Done(i) /\ tasks[i].retry_count = 2 /\ tasks[i].attempt.success
        /\ tasks[i].attempt.response_time_ms = 1
        /\ tasks[i].finished - tasks[i].attempt.timestamp >= 4

\* the (offset, target) pair of the unit behind the k-th returned record
PairOf(k) == <<tasks[k].offset_ms, tasks[k].tee_time>>

\* the pairs in scheduling order: offsets in configured order and, for each
\* offset, the targets in configured order
ScheduledPairs ==
    [ k \in 1..NumJobs |->
        <<config.burst_offsets[((k - 1) \div Len(target_times)) + 1],
          target_times[((k - 1) % Len(target_times)) + 1]>> ]

\* C23: when no exception left a unit, the list execute_burst_strategy returned
\* is in scheduling order: its k-th record is the record of the unit of the
\* k-th (offset, target) pair, offsets in configured order and the targets in
\* configured order within an offset, whenever the units fired and ended.
C23_SchedulingOrder ==
    Returned /\ exceptions = << >> =>
        /\ DOMAIN attempts = 1..NumJobs
        /\ \A k \in DOMAIN attempts :
              /\ k \in Units
              /\ PairOf(k) = ScheduledPairs[k]
              /\ attempts[k] = tasks[k].attempt
              /\ attempts[k].offset_ms = ScheduledPairs[k][1]
              /\ attempts[k].timestamp = tasks[k].attempt.timestamp

\* the unit scheduled first fired after the unit scheduled second had ended,
\* and its record is first in the list
C23_Witness ==
    /\ Returned /\ exceptions = << >>
    /\ Len(attempts) = 2
    /\ tasks[1].attempt.timestamp > tasks[2].finished
    /\ attempts[1].offset_ms = 1 /\ attempts[2].offset_ms = -3
    /\ attempts[1].timestamp > attempts[2].timestamp

\* C24: a unit that enters its retry path with max_retry_attempts = 0, or
\* whose first request took at least cutoff_seconds, issues no retry request:
\* it is finalized in the step of its first answer, with success false, status
\* 400 and the error text 'Max retries (0) reached or cutoff time exceeded'.
C24_NoRetryWhenExhausted ==
    \A i \in Units :
        LET t == tasks[i] IN
        (/\ t.in_retry
         /\ \/ config.max_retry_attempts = 0
            \/ t.attempt.response_time_ms >= config.cutoff_seconds) =>
            /\ Done(i) /\ ~t.raised
            /\ t.requests = 1 /\ t.retry_count = 0
            /\ t.last_outcome = NoOutcome
            /\ t.finished = t.attempt.timestamp + t.attempt.response_time_ms
            /\ ~t.attempt.success /\ t.attempt.status_code = 400
            /\ t.attempt.error_message = MaxRetriesMsg(0)
            /\ Contains(<<"(", "0", ")">>, t.attempt.error_message)

\* the first request of a unit that may retry twice took as long as the cutoff
C24_Witness ==
    \E i \in Units :
        /\ tasks[i].in_retry /\ Done(i)
        /\ config.max_retry_attempts = 2
        /\ tasks[i].attempt.response_time_ms >= config.cutoff_seconds
        /\ tasks[i].requests = 1

====
